---------------------------- MODULE Spec2Model ----------------------------
(***************************************************************************)
(* Model of 2025-quiron-carrera-empresas/download_clasificaciones.py: the  *)
(* download pipeline of the race classifications.  One run of main() is a  *)
(* state machine: the main coroutine walks the fixed targets in order,     *)
(* every HTTP request is made inside `async with semaphore`, fetch() is    *)
(* wrapped by backoff.on_exception(expo, max_tries=5, max_time=60), the    *)
(* pages 2..max_page of an absoluta target are fetched by tasks collected  *)
(* with asyncio.gather, and the three row lists are written once at the    *)
(* end.                                                                    *)
(*                                                                         *)
(* Texts (cell contents, attribute values) are sequences of one-character  *)
(* strings.  A fetched body is the structure BeautifulSoup finds in it:    *)
(* [status, url, table, equipos, links].  Seconds are kept in thousandths  *)
(* (fixed point) where the code computes a float.                          *)
(***************************************************************************)
EXTENDS Integers, Sequences, FiniteSets, TLC

\* ------------------------------------------------------------ constants
MAX_CONCURRENT == 5
MaxTries == 5
MaxTime == 60
\* aiohttp.ClientSession() is built with its default ClientTimeout(total=300):
\* an attempt that times out raises asyncio.TimeoutError after 300 seconds.
AttemptTimeout == 300

\* ------------------------------------------------------------ bounds
\* Largest number of pages of an absoluta classification of the site.
MaxPages == 7
\* Result rows (and team blocks) on a page of the simulated site.
MaxRows == 1
\* Colon-separated parts of a time text given to tiempo_a_segundos.
MaxParts == 4
\* Largest hour count of a clock time given to tiempo_a_segundos.
MaxHours == 2
\* <tr> rows (header included) of a table given to parse_individual.
MaxTrs == 3
\* Member rows, after the first row, of a team block given to parse_equipos.
MaxMembers == 2
\* <a> links of a body given to get_max_page.
MaxLinks == 3

\* The accumulated times of the round trip run up to MaxSeconds seconds.
MaxSeconds == 3700
\* An optional value is None or Some(v); Val(o) is the v of Some(v).
None == <<>>

Some(v) == <<v>>

Val(o) == o[1]

\* ------------------------------------------------------------ texts
Digits == <<"0", "1", "2", "3", "4", "5", "6", "7", "8", "9">>

DigitVal(c) == (CHOOSE i \in 1..10 : Digits[i] = c) - 1

IsDigitChar(c) == \E i \in 1..10 : Digits[i] = c

\* str.isdigit(): non-empty and every character a digit.
IsDigit(t) == Len(t) > 0 /\ \A i \in 1..Len(t) : IsDigitChar(t[i])

RECURSIVE DigitsToInt(_)
DigitsToInt(t) ==
    IF Len(t) = 0 THEN 0
    ELSE 10 * DigitsToInt(SubSeq(t, 1, Len(t) - 1)) + DigitVal(t[Len(t)])

\* str.strip() for the one whitespace character of the alphabet.
RECURSIVE Strip(_)
Strip(t) ==
    IF Len(t) = 0 THEN t
    ELSE IF t[1] = " " THEN Strip(Tail(t))
    ELSE IF t[Len(t)] = " " THEN Strip(SubSeq(t, 1, Len(t) - 1))
    ELSE t

\* str.split(":"): always at least one part, empty parts kept.
RECURSIVE Split(_)
Split(t) ==
    IF \A i \in 1..Len(t) : t[i] # ":" THEN <<t>>
    ELSE LET k == CHOOSE i \in 1..Len(t) :
                     t[i] = ":" /\ \A j \in 1..(i - 1) : t[j] # ":"
         IN <<SubSeq(t, 1, k - 1)>> \o Split(SubSeq(t, k + 1, Len(t)))

Unsigned(t) == IF Len(t) > 0 /\ t[1] \in {"+", "-"} THEN Tail(t) ELSE t

Sign(t) == IF Len(t) > 0 /\ t[1] = "-" THEN -1 ELSE 1

\* An int() that rejects a leading zero, as an integer literal does.
PyIntNoLeadingZero(s) ==
    LET t == Strip(s)
        u == Unsigned(t)
    IN IF IsDigit(u) /\ (Len(u) = 1 \/ u[1] # "0")
       THEN Some(Sign(t) * DigitsToInt(u)) ELSE None

\* int(s): surrounding whitespace, an optional sign, decimal digits.
\* None stands for the ValueError int() raises.
PyInt(s) ==
    LET t == Strip(s)
        u == Unsigned(t)
    IN IF IsDigit(u) THEN Some(Sign(t) * DigitsToInt(u)) ELSE None

Pow10(n) == IF n = 0 THEN 1 ELSE IF n = 1 THEN 10 ELSE IF n = 2 THEN 100 ELSE 1000

\* float(s) in thousandths: surrounding whitespace, an optional sign, digits
\* with an optional point ("5", "5.", ".5", "5.25"); at most three fraction
\* digits occur in the inputs of this model.  None stands for ValueError.
PyFloat(s) ==
    LET t == Strip(s)
        u == Unsigned(t)
        dots == {i \in 1..Len(u) : u[i] = "."}
        ip == IF dots = {} THEN u ELSE SubSeq(u, 1, (CHOOSE i \in dots : TRUE) - 1)
        fp == IF dots = {} THEN <<>> ELSE SubSeq(u, (CHOOSE i \in dots : TRUE) + 1, Len(u))
        ok == /\ Cardinality(dots) <= 1
              /\ Len(ip) + Len(fp) > 0
              /\ \A i \in 1..Len(ip) : IsDigitChar(ip[i])
              /\ \A i \in 1..Len(fp) : IsDigitChar(fp[i])
              /\ Len(fp) <= 3
    IN IF ok
       THEN Some(Sign(t) * (1000 * DigitsToInt(ip)
                            + DigitsToInt(fp) * Pow10(3 - Len(fp))))
       ELSE None

\* tiempo_a_segundos(tiempo): Some(thousandths of a second), or None.
tiempo_a_segundos(tiempo) ==
    IF tiempo = <<>> \/ tiempo = <<"-">> THEN None
    ELSE LET parts == Split(Strip(tiempo))
         IN IF Len(parts) = 3
            THEN LET h == PyInt(parts[1])
                     m == PyInt(parts[2])
                     s == PyFloat(parts[3])
                 IN IF None \in {h, m, s} THEN None
                    ELSE Some(Val(h) * 3600000 + Val(m) * 60000 + Val(s))
            ELSE IF Len(parts) = 2
            THEN LET m == PyInt(parts[1])
                     s == PyFloat(parts[2])
                 IN IF None \in {m, s} THEN None
                    ELSE Some(Val(m) * 60000 + Val(s))
            ELSE PyFloat(parts[1])

\* ------------------------------------------------------------ parsers
\* A table row is the sequence of the texts of its <td> cells.
IndividualRow(cells, categoria, distancia, sexo) ==
    [puesto |-> IF IsDigit(cells[1]) THEN Some(DigitsToInt(cells[1])) ELSE None,
     nombre |-> cells[2],
     empresa |-> cells[3],
     tiempo |-> cells[4],
     tiempo_segundos |-> tiempo_a_segundos(cells[4]),
     categoria |-> categoria,
     distancia |-> distancia,
     sexo |-> sexo,
     num_corredores |-> 1,
     nombre_equipo |-> None,
     tiempo_acumulado |-> None]

RECURSIVE IndividualRows(_, _, _, _)
IndividualRows(trs, categoria, distancia, sexo) ==
    IF Len(trs) = 0 THEN <<>>
    ELSE (IF Len(trs[1]) < 4 THEN <<>>
          ELSE <<IndividualRow(trs[1], categoria, distancia, sexo)>>)
         \o IndividualRows(Tail(trs), categoria, distancia, sexo)

\* A parse_individual that reads the first row of the table as a data row.
parse_individual_with_header(html, categoria, distancia, sexo) ==
    IF html.table = None THEN <<>>
    ELSE IndividualRows(Val(html.table), categoria, distancia, sexo)

\* parse_individual: html.table is None (no <table>) or Some(the sequence of
\* all the <tr> rows of the first table); the first row is skipped as header.
parse_individual(html, categoria, distancia, sexo) ==
    IF html.table = None THEN <<>>
    ELSE IF Len(Val(html.table)) = 0 THEN <<>>
    ELSE IndividualRows(Tail(Val(html.table)), categoria, distancia, sexo)

\* The digits matched by re.search(marker \s* (\d+)) in t, as Some(text), or
\* None without a match.  The marker ("Tiempo Acumulado:", "page=") is one
\* symbol of the text; skipWs tells whether \s* stands between marker and
\* digits.
RECURSIVE DigitRun(_)
DigitRun(t) ==
    IF Len(t) > 0 /\ IsDigitChar(t[1]) THEN <<t[1]>> \o DigitRun(Tail(t)) ELSE <<>>

RECURSIVE SkipWs(_)
SkipWs(t) == IF Len(t) > 0 /\ t[1] = " " THEN SkipWs(Tail(t)) ELSE t

RECURSIVE SearchDigits(_, _, _)
SearchDigits(t, marker, skipWs) ==
    IF Len(t) = 0 THEN None
    ELSE LET rest == IF skipWs THEN SkipWs(Tail(t)) ELSE Tail(t)
         IN IF t[1] = marker /\ DigitRun(rest) # <<>>
            THEN Some(DigitRun(rest))
            ELSE SearchDigits(Tail(t), marker, skipWs)

Contains(t, marker) == \E i \in 1..Len(t) : t[i] = marker

RECURSIVE IntToDigits(_)
IntToDigits(n) ==
    IF n < 10 THEN <<Digits[n + 1]>>
    ELSE IntToDigits(n \div 10) \o <<Digits[(n % 10) + 1]>>

\* format(n, "02d") for n >= 0.
Pad2(n) == IF n < 10 THEN <<"0">> \o IntToDigits(n) ELSE IntToDigits(n)

Lower == <<"a", "b", "c", "d", "e", "f", "g", "h", "i", "j", "k", "l", "m",
           "n", "o", "p", "q", "r", "s", "t", "u", "v", "w", "x", "y", "z">>

Upper == <<"A", "B", "C", "D", "E", "F", "G", "H", "I", "J", "K", "L", "M",
           "N", "O", "P", "Q", "R", "S", "T", "U", "V", "W", "X", "Y", "Z">>

UpperChar(c) ==
    IF \E i \in 1..26 : Lower[i] = c
    THEN Upper[CHOOSE i \in 1..26 : Lower[i] = c]
    ELSE c

\* str.upper()
ToUpper(t) == [i \in 1..Len(t) |-> UpperChar(t[i])]

\* The "Tiempo Acumulado: <ms>" of a team cell, formatted HH:MM:SS, or None.
\* A conversion that rounds the milliseconds to the nearest second.
TiempoAcumuladoRounded(team_text) ==
    LET match == IF Contains(team_text, "Tiempo Acumulado:")
                 THEN SearchDigits(team_text, "Tiempo Acumulado:", TRUE)
                 ELSE None
        ms == IF match = None THEN 0 ELSE DigitsToInt(Val(match))
        total_seconds == (ms + 500) \div 1000
        h == total_seconds \div 3600
        m == (total_seconds % 3600) \div 60
        s == total_seconds % 60
    IN IF match = None \/ ms = 0 THEN None
       ELSE Some(Pad2(h) \o <<":">> \o Pad2(m) \o <<":">> \o Pad2(s))

TiempoAcumulado(team_text) ==
    LET match == IF Contains(team_text, "Tiempo Acumulado:")
                 THEN SearchDigits(team_text, "Tiempo Acumulado:", TRUE)
                 ELSE None
        ms == IF match = None THEN 0 ELSE DigitsToInt(Val(match))
        total_seconds == ms \div 1000
        h == total_seconds \div 3600
        m == (total_seconds % 3600) \div 60
        s == total_seconds % 60
    IN IF match = None \/ ms = 0 THEN None
       ELSE Some(Pad2(h) \o <<":">> \o Pad2(m) \o <<":">> \o Pad2(s))

\* A team record that counts its runner alone: "num_corredores": 1.
TeamRowSolo(puesto, nombre, tiempo, nombre_equipo, tiempo_acumulado, categoria, distancia, sexo, num_corredores) ==
    [puesto |-> puesto,
     nombre |-> nombre,
     empresa |-> nombre_equipo,
     tiempo |-> tiempo,
     tiempo_segundos |-> tiempo_a_segundos(tiempo),
     categoria |-> categoria,
     distancia |-> distancia,
     sexo |-> sexo,
     num_corredores |-> 1,
     nombre_equipo |-> Some(nombre_equipo),
     tiempo_acumulado |-> tiempo_acumulado]

TeamRow(puesto, nombre, tiempo, nombre_equipo, tiempo_acumulado, categoria, distancia, sexo, num_corredores) ==
    [puesto |-> puesto,
     nombre |-> nombre,
     empresa |-> nombre_equipo,
     tiempo |-> tiempo,
     tiempo_segundos |-> tiempo_a_segundos(tiempo),
     categoria |-> categoria,
     distancia |-> distancia,
     sexo |-> sexo,
     num_corredores |-> num_corredores,
     nombre_equipo |-> Some(nombre_equipo),
     tiempo_acumulado |-> tiempo_acumulado]

\* Member records that do not take over the rank of their team.
RECURSIVE MemberRowsUnranked(_, _, _, _, _, _, _, _)
MemberRowsUnranked(trs, puesto, nombre_equipo, tiempo_acumulado, categoria, distancia, sexo, num_corredores) ==
    IF Len(trs) = 0 THEN <<>>
    ELSE (IF Len(trs[1]) >= 2
          THEN <<TeamRow(None, trs[1][1], trs[1][2], nombre_equipo,
                         tiempo_acumulado, categoria, distancia, sexo,
                         num_corredores)>>
          ELSE <<>>)
         \o MemberRowsUnranked(Tail(trs), puesto, nombre_equipo,
                               tiempo_acumulado, categoria, distancia, sexo,
                               num_corredores)

RECURSIVE MemberRows(_, _, _, _, _, _, _, _)
MemberRows(trs, puesto, nombre_equipo, tiempo_acumulado, categoria, distancia, sexo, num_corredores) ==
    IF Len(trs) = 0 THEN <<>>
    ELSE (IF Len(trs[1]) >= 2
          THEN <<TeamRow(puesto, trs[1][1], trs[1][2], nombre_equipo,
                         tiempo_acumulado, categoria, distancia, sexo,
                         num_corredores)>>
          ELSE <<>>)
         \o MemberRows(Tail(trs), puesto, nombre_equipo, tiempo_acumulado,
                       categoria, distancia, sexo, num_corredores)

\* A block parser whose member loop starts at the first row: `for tr in trs`.
EquipoBlockFirstAsMember(tbody, categoria, distancia, sexo, num_corredores) ==
    LET nombre_equipo ==
            ToUpper(IF tbody.data_equipo = None THEN <<>> ELSE Val(tbody.data_equipo))
        trs == tbody.trs
    IN IF Len(trs) = 0 THEN <<>>
       ELSE IF Len(trs[1]) < 4 THEN <<>>
       ELSE LET cells == trs[1]
                puesto == IF IsDigit(cells[1])
                          THEN Some(DigitsToInt(cells[1])) ELSE None
                tiempo_acumulado == TiempoAcumulado(cells[2])
            IN <<TeamRow(puesto, cells[3], cells[4], nombre_equipo,
                         tiempo_acumulado, categoria, distancia, sexo,
                         num_corredores)>>
               \o MemberRows(trs, puesto, nombre_equipo, tiempo_acumulado,
                             categoria, distancia, sexo, num_corredores)

\* The rows of one <tbody class="equipo">: [data_equipo, trs].
EquipoBlock(tbody, categoria, distancia, sexo, num_corredores) ==
    LET nombre_equipo ==
            ToUpper(IF tbody.data_equipo = None THEN <<>> ELSE Val(tbody.data_equipo))
        trs == tbody.trs
    IN IF Len(trs) = 0 THEN <<>>
       ELSE IF Len(trs[1]) < 4 THEN <<>>
       ELSE LET cells == trs[1]
                puesto == IF IsDigit(cells[1])
                          THEN Some(DigitsToInt(cells[1])) ELSE None
                tiempo_acumulado == TiempoAcumulado(cells[2])
            IN <<TeamRow(puesto, cells[3], cells[4], nombre_equipo,
                         tiempo_acumulado, categoria, distancia, sexo,
                         num_corredores)>>
               \o MemberRows(Tail(trs), puesto, nombre_equipo, tiempo_acumulado,
                             categoria, distancia, sexo, num_corredores)

RECURSIVE EquipoBlocks(_, _, _, _, _)
EquipoBlocks(tbodies, categoria, distancia, sexo, num_corredores) ==
    IF Len(tbodies) = 0 THEN <<>>
    ELSE EquipoBlock(tbodies[1], categoria, distancia, sexo, num_corredores)
         \o EquipoBlocks(Tail(tbodies), categoria, distancia, sexo, num_corredores)

\* parse_equipos: html.equipos is the sequence of the <tbody class="equipo">.
parse_equipos(html, categoria, distancia, sexo, num_corredores) ==
    EquipoBlocks(html.equipos, categoria, distancia, sexo, num_corredores)

RECURSIVE MaxOver(_, _)
MaxOver(links, max_page) ==
    IF Len(links) = 0 THEN max_page
    ELSE LET match == SearchDigits(links[1], "page=", FALSE)
             page == IF match = None THEN max_page ELSE DigitsToInt(Val(match))
         IN MaxOver(Tail(links), IF page > max_page THEN page ELSE max_page)

\* A get_max_page that starts from max_page = 0.
get_max_page_from_zero(html) == MaxOver(html.links, 0)

\* get_max_page: html.links is the sequence of the href texts of the <a>.
get_max_page(html) == MaxOver(html.links, 1)


\* ------------------------------------------------------------ targets
\* A URL is kept as the values its f-string is filled with (tipoEquipo as
\* the three pieces it is made of); page = 0 is the URL without a page
\* parameter.
Url(php, sexo, tipoEquipo, carrera) ==
    [php |-> php, sexo |-> sexo, tipoEquipo |-> tipoEquipo,
     carrera |-> carrera, page |-> 0]

\* f"{url}&page={page}"
PageUrl(url, page) == [url EXCEPT !.page = page]

Distancias == <<"5", "10">>

Sexos == <<"M", "F">>

\* The targets of download_absoluta, in the order of its two loops.
AbsolutaTargets ==
    [i \in 1..(Len(Distancias) * Len(Sexos)) |->
        LET distancia == Distancias[((i - 1) \div Len(Sexos)) + 1]
            sexo == Sexos[((i - 1) % Len(Sexos)) + 1]
        IN [categoria |-> "absoluta", distancia |-> distancia \o "K",
            sexo |-> sexo, num_corredores |-> 1,
            url |-> Url("absoluta.php", sexo, <<>>, distancia)]]

\* The targets of download_autonomos.
AutonomosTargets ==
    [i \in 1..(Len(Distancias) * Len(Sexos)) |->
        LET distancia == Distancias[((i - 1) \div Len(Sexos)) + 1]
            sexo == Sexos[((i - 1) % Len(Sexos)) + 1]
        IN [categoria |-> "autonomos", distancia |-> distancia \o "K",
            sexo |-> sexo, num_corredores |-> 1,
            url |-> Url("autonomos.php", sexo, <<>>, distancia)]]

EquiposDistancias == <<"5k", "10k">>

NumCorredoresList == <<"2", "3", "4">>

Tipos == <<[tipo |-> "masc", sexo |-> "M"], [tipo |-> "fem", sexo |-> "F"],
           [tipo |-> "mixto", sexo |-> "X"]>>

\* A download_equipos that labels its rows with the distance as it stands in
\* the URL, without .upper().
DistanciaAsIs(distancia) == distancia

\* distancia.upper() on the two literals of download_equipos.
DistanciaUpper(distancia) == IF distancia = "5k" THEN "5K" ELSE "10K"

\* The targets of download_equipos, in the order of its three loops.
EquiposTargets ==
    [i \in 1..(Len(EquiposDistancias) * Len(NumCorredoresList) * Len(Tipos)) |->
        LET distancia ==
                EquiposDistancias[((i - 1) \div (Len(NumCorredoresList) * Len(Tipos))) + 1]
            num == NumCorredoresList[(((i - 1) \div Len(Tipos)) % Len(NumCorredoresList)) + 1]
            t == Tipos[((i - 1) % Len(Tipos)) + 1]
            carrera_num == IF distancia = "5k" THEN "5" ELSE "10"
        IN [categoria |-> "equipos_" \o num,
            distancia |-> DistanciaUpper(distancia),
            sexo |-> t.sexo, num_corredores |-> DigitsToInt(<<num>>),
            url |-> Url("equipos.php", "", <<distancia, num, t.tipo>>, carrera_num)]]

\* main() runs the three downloads one after the other.
Targets == AbsolutaTargets \o AutonomosTargets \o EquiposTargets

LastAbsoluta == Len(AbsolutaTargets)

LastAutonomos == LastAbsoluta + Len(AutonomosTargets)

LastEquipos == Len(Targets)

IsAbsoluta(i) == i <= LastAbsoluta

IsEquipos(i) == i > LastAutonomos

\* A pagination loop that starts at page 1: range(1, max_page + 1).
PageRangeFromOne(max_page) == 1..max_page

\* range(2, max_page + 1)
PageRange(max_page) == 2..max_page

\* ------------------------------------------------------------ the site
\* What the simulated site answers.  A 200 answer to an individual URL is a
\* table of a header row and `rows` result rows, ranked across the pages,
\* with a link to each page 2..n; a 200 answer to a team URL holds `rows`
\* team blocks of num_corredores members; a 4xx or 5xx answer is an error
\* page without table, team block or link.
HeaderRow == <<<<"#">>, <<"N">>, <<"E">>, <<"T">>>>

SiteTiempo == <<"2", "5", ":", "0", "0">>

SiteIndividual(page, n, rows) ==
    [table |-> Some(<<HeaderRow>> \o
                    [i \in 1..rows |->
                        <<IntToDigits((page - 1) * rows + i), <<"n">>, <<"e">>,
                          SiteTiempo>>]),
     equipos |-> <<>>,
     links |-> [k \in 1..(n - 1) |-> <<"?", "page=">> \o IntToDigits(k + 1)]]

SiteEquipos(num_corredores, rows) ==
    [table |-> None,
     equipos |-> [b \in 1..rows |->
                    [data_equipo |-> Some(<<"t">> \o IntToDigits(b)),
                     trs |-> <<<<IntToDigits(b),
                                 <<"T", "Tiempo Acumulado:", " ">>
                                     \o IntToDigits(3958521 + b),
                                 <<"n">>, SiteTiempo>>>>
                             \o [j \in 1..(num_corredores - 1) |->
                                    <<<<"m">>, SiteTiempo>>]]],
     links |-> <<>>]

ErrorPage == [table |-> None, equipos |-> <<>>, links |-> <<>>]

\* The body of the answer with `status` to a GET of `url`, on the site whose
\* absoluta classifications have n pages of `rows` rows.  The URL without a
\* page parameter shows page 1; tipoEquipo names the size of the teams.
SiteBody(url, status, n, rows) ==
    IF status # 200 THEN ErrorPage
    ELSE IF url.php = "equipos.php"
    THEN SiteEquipos(DigitsToInt(<<url.tipoEquipo[2]>>), rows)
    ELSE SiteIndividual(IF url.page = 0 THEN 1 ELSE url.page,
                        IF url.php = "absoluta.php" THEN n ELSE 1, rows)

Statuses == {200, 404, 500}

\* The page counts of the absoluta classifications of the simulated sites.
PageCounts == {1, 2, MaxPages}

\* The transient errors fetch() retries, and how long the attempt lasted.
TransientErrors == {"ClientError", "TimeoutError"}

AttemptSeconds(err) == IF err = "TimeoutError" THEN AttemptTimeout ELSE 0

\* ------------------------------------------------------------ backoff
\* backoff.expo: 1, 2, 4, 8, ... before the retry that follows failure `tries`.
Expo(tries) == 2 ^ (tries - 1)

\* backoff.full_jitter draws uniformly from [0, value].  The draws kept are
\* the two ends of the interval, and all the draws made for one fetch call
\* fall on the same end: draw = 0 or draw = 1.
Draws == {0, 1}

\* A jitter added on top of the exponential value instead of drawn below it.
JitterAbove(value, draw) == value + draw

Jitter(value, draw) == draw * value

Min(a, b) == IF a < b THEN a ELSE b

\* A backoff that allows one attempt more than max_tries.
GiveUpLate(tries, elapsed) == tries = MaxTries + 1 \/ elapsed >= MaxTime

\* backoff gives up once max_tries attempts were made, or when max_time had
\* elapsed at the start of the attempt that failed.
GiveUp(tries, elapsed) == tries = MaxTries \/ elapsed >= MaxTime

\* backoff never sleeps longer than what is left of max_time.
NextWait(jitter, elapsed) == Min(jitter, MaxTime - elapsed)

\* ------------------------------------------------------------ state
VARIABLES
    pc,             \* where main() is: acquire, fetch, gather, write, done, aborted
    ti,             \* index in Targets of the target being downloaded
    max_page,       \* get_max_page of the first page (0 before it is known)
    task,           \* fetch calls: task[1] is the main coroutine's own call,
                    \* task[k] for k >= 2 is fetch_and_parse_individual of page k
    permits,        \* the value of the semaphore
    absoluta_rows,  \* all_rows of download_absoluta, main's absoluta_rows
    autonomos_rows, \* all_rows of download_autonomos, main's autonomos_rows
    equipos_rows,   \* all_rows of download_equipos, main's equipos_rows
    all_rows,       \* all_rows of main (line 325), the rows of the DataFrame
    parquet,        \* the output file: None while this run has not written it
    nwrites,        \* calls of df.to_parquet
    site_rows,      \* rows per page of the simulated site
    site_pages,     \* pages of each absoluta classification of the site
    faulted,        \* a fetch call of this run has met a fault
    issued,         \* [target, url] of every call of fetch(), in call order
    handed,         \* statuses of the answers whose body was given to a parser
    raised,         \* the exception that ended the run, None if none did
    page_counts,    \* per target, what get_max_page returned (0: never called)
    overtaken,      \* since the last acquire of main, a page task returned
                    \* before the task of a lower page
    call            \* the last direct call of a parser: [fn, result, ...],
                    \* fn = "none" while no parser was called directly

vars == <<pc, ti, max_page, task, permits, all_rows, absoluta_rows,
          autonomos_rows, equipos_rows, parquet, nwrites, site_rows,
          site_pages, faulted, issued, handed, raised, page_counts,
          overtaken, call>>

NoCall == [st |-> "none", tries |-> 0, elapsed |-> 0, wait |-> 0,
           slept |-> 0, draw |-> 0, faulty |-> FALSE, url |-> None,
           rows |-> <<>>]

\* The call enters fetch(session, url): backoff starts its first attempt.
NewCall(url) == [NoCall EXCEPT !.st = "request", !.tries = 1, !.url = Some(url)]

\* A call is inside `async with semaphore` while it requests or backs off.
Holding(c) == c.st \in {"request", "sleep"}

\* A semaphore created one slot too wide.
SemaphoreTooWide == MAX_CONCURRENT + 1

\* semaphore = asyncio.Semaphore(MAX_CONCURRENT), once per run
SemaphoreValue == MAX_CONCURRENT

Holders == {k \in DOMAIN task : Holding(task[k])}

InFlight == {k \in DOMAIN task : task[k].st = "request"}

Init ==
    /\ pc = "acquire"
    /\ ti = 1
    /\ max_page = 0
    /\ task = [k \in 1..MaxPages |-> NoCall]
    /\ permits = SemaphoreValue
    /\ all_rows = <<>>
    /\ absoluta_rows = <<>>
    /\ autonomos_rows = <<>>
    /\ equipos_rows = <<>>
    /\ parquet = None
    /\ nwrites = 0
    /\ site_rows \in 1..MaxRows
    /\ site_pages \in PageCounts
    /\ faulted = FALSE
    /\ issued = <<>>
    /\ handed = {}
    /\ raised = None
    /\ page_counts = [i \in 1..Len(Targets) |-> 0]
    /\ overtaken = FALSE
    /\ call = [fn |-> "none"]

Target == Targets[ti]

\* The faults of a run (an exception, a 4xx or 5xx answer) all fall on one
\* fetch call: a call may meet a fault if it met one before or none did yet.
MayFault(k) == task[k].faulty \/ ~faulted

\* The parser each download_* hands its bodies to.
Parse(target, html) ==
    IF target.url.php = "equipos.php"
    THEN parse_equipos(html, target.categoria, target.distancia, target.sexo,
                       target.num_corredores)
    ELSE parse_individual(html, target.categoria, target.distancia, target.sexo)

\* A download_* that keeps only the rows of the last body: all_rows = rows.
ExtendOverwrite(rows) ==
    /\ absoluta_rows' = IF IsAbsoluta(ti) THEN rows ELSE absoluta_rows
    /\ autonomos_rows' = IF ~IsAbsoluta(ti) /\ ~IsEquipos(ti)
                         THEN rows ELSE autonomos_rows
    /\ equipos_rows' = IF IsEquipos(ti) THEN rows ELSE equipos_rows

\* all_rows.extend(rows) in the download_* of the current target.
Extend(rows) ==
    /\ absoluta_rows' = IF IsAbsoluta(ti) THEN absoluta_rows \o rows ELSE absoluta_rows
    /\ autonomos_rows' = IF ~IsAbsoluta(ti) /\ ~IsEquipos(ti)
                         THEN autonomos_rows \o rows ELSE autonomos_rows
    /\ equipos_rows' = IF IsEquipos(ti) THEN equipos_rows \o rows ELSE equipos_rows

\* The loops move to the next target; after the last one the session is
\* closed and main() goes on to the write.
NextTarget ==
    /\ ti' = ti + 1
    /\ pc' = IF ti = LastEquipos THEN "write" ELSE "acquire"
    /\ max_page' = 0

\* An extend loop that takes the gathered results last page first.
RECURSIVE ConcatReversed(_, _, _)
ConcatReversed(results, lo, hi) ==
    IF lo > hi THEN <<>>
    ELSE results[hi].rows \o ConcatReversed(results, lo, hi - 1)

RECURSIVE Concat(_, _, _)
\* rows of the gathered results lo..hi, in the order gather returns them
Concat(results, lo, hi) ==
    IF lo > hi THEN <<>> ELSE results[lo].rows \o Concat(results, lo + 1, hi)

\* A download_absoluta that sends the request of page 2 together with the
\* request of the first page, before any page count is known.
MainAcquirePrefetch ==
    /\ pc = "acquire"
    /\ permits > 1
    /\ permits' = permits - 2
    /\ task' = [task EXCEPT ![1] = NewCall(Target.url),
                            ![2] = NewCall(PageUrl(Target.url, 2))]
    /\ issued' = issued \o <<[target |-> ti, url |-> Target.url],
                             [target |-> ti, url |-> PageUrl(Target.url, 2)]>>
    /\ overtaken' = FALSE
    /\ pc' = "fetch"
    /\ UNCHANGED <<ti, max_page, absoluta_rows, autonomos_rows, equipos_rows,
                   all_rows, parquet, nwrites, site_rows, site_pages,
                   faulted, handed, raised, page_counts, call>>

\* `async with semaphore:` of a download_*, then fetch() sends the request.
MainAcquire ==
    /\ pc = "acquire"
    /\ permits > 0
    /\ permits' = permits - 1
    /\ task' = [task EXCEPT ![1] = NewCall(Target.url)]
    /\ issued' = Append(issued, [target |-> ti, url |-> Target.url])
    /\ overtaken' = FALSE
    /\ pc' = "fetch"
    /\ UNCHANGED <<ti, max_page, absoluta_rows, autonomos_rows, equipos_rows,
                   all_rows, parquet, nwrites, site_rows, site_pages,
                   faulted, handed, raised, page_counts, call>>

\* The page tasks that pass `async with semaphore` without waiting when the
\* gather starts them, one after the other, with `free` permits left: each
\* runs up to its request before the event loop looks at any answer.
Admitted(pages, free) == {k \in PageRange(pages) : k - 2 < free}

RECURSIVE Calls(_, _)
\* the fetch calls of the pages of the set, in increasing order of page
Calls(i, pages) ==
    IF pages = {} THEN <<>>
    ELSE LET k == CHOOSE p \in pages : \A q \in pages : p <= q
         IN <<[target |-> i, url |-> PageUrl(Targets[i].url, k)]>>
            \o Calls(i, pages \ {k})

\* The answer to the main coroutine's request arrives: response.text() is
\* returned whatever the status, the slot is released, the body is parsed
\* and, for an absoluta target, the page tasks are created and gathered.
MainResponse(status) ==
    /\ pc = "fetch"
    /\ task[1].st = "request"
    /\ status # 200 => MayFault(1)
    /\ LET html == SiteBody(Val(task[1].url), status, site_pages, site_rows)
           pages == IF IsAbsoluta(ti) THEN get_max_page(html) ELSE 1
       IN /\ handed' = handed \cup {status}
          /\ faulted' = (faulted \/ status # 200)
          /\ Extend(Parse(Target, html))
          /\ page_counts' = IF IsAbsoluta(ti)
                            THEN [page_counts EXCEPT ![ti] = pages]
                            ELSE page_counts
          /\ IF PageRange(pages) # {}
             THEN /\ task' = [k \in DOMAIN task |->
                                IF k \in Admitted(pages, permits + 1)
                                THEN NewCall(PageUrl(Target.url, k))
                                ELSE IF k \in PageRange(pages)
                                THEN [NoCall EXCEPT !.st = "waiting"]
                                ELSE NoCall]
                  /\ permits' = permits + 1 - Cardinality(Admitted(pages, permits + 1))
                  /\ issued' = issued \o Calls(ti, Admitted(pages, permits + 1))
                  /\ max_page' = pages
                  /\ pc' = "gather"
                  /\ ti' = ti
             ELSE /\ task' = [task EXCEPT ![1] = NoCall]
                  /\ permits' = permits + 1
                  /\ issued' = issued
                  /\ NextTarget
    /\ UNCHANGED <<all_rows, parquet, nwrites, site_rows, site_pages, raised,
                   overtaken, call>>

\* A page task that waited in `async with semaphore:` gets a slot; the
\* semaphore serves its waiters in the order they arrived.
PageAcquire(k) ==
    /\ pc = "gather"
    /\ task[k].st = "waiting"
    /\ \A j \in 2..(k - 1) : task[j].st # "waiting"
    /\ permits > 0
    /\ permits' = permits - 1
    /\ task' = [task EXCEPT ![k] = NewCall(PageUrl(Target.url, k))]
    /\ issued' = Append(issued, [target |-> ti, url |-> PageUrl(Target.url, k)])
    /\ UNCHANGED <<pc, ti, max_page, absoluta_rows, autonomos_rows,
                   equipos_rows, all_rows, parquet, nwrites, site_rows,
                   site_pages, faulted, handed, raised, page_counts,
                   overtaken, call>>

\* The answer to the request of page k arrives: the slot is released and the
\* task returns parse_individual of the body.
PageResponse(k, status) ==
    /\ pc = "gather"
    /\ task[k].st = "request"
    /\ k >= 2
    /\ status # 200 => MayFault(k)
    /\ LET html == SiteBody(Val(task[k].url), status, site_pages, site_rows)
       IN task' = [task EXCEPT ![k] =
                      [NoCall EXCEPT !.st = "returned",
                                     !.rows = parse_individual(html, Target.categoria,
                                                  Target.distancia, Target.sexo)]]
    /\ permits' = permits + 1
    /\ handed' = handed \cup {status}
    /\ faulted' = (faulted \/ status # 200)
    /\ overtaken' = (overtaken \/ \E j \in 2..(k - 1) : task[j].st # "returned")
    /\ UNCHANGED <<pc, ti, max_page, absoluta_rows, autonomos_rows,
                   equipos_rows, all_rows, parquet, nwrites, site_rows,
                   site_pages, issued, raised, page_counts, call>>

\* A retry that gives its slot back while it sleeps.
RetryReleasing(k, err, draw) ==
    /\ pc \in {"fetch", "gather"}
    /\ task[k].st = "request"
    /\ MayFault(k)
    /\ ~GiveUp(task[k].tries, task[k].elapsed)
    /\ task[k].faulty => draw = task[k].draw
    /\ LET seconds == NextWait(Jitter(Expo(task[k].tries), draw), task[k].elapsed)
       IN task' = [task EXCEPT ![k].st = "sleep",
                               ![k].wait = seconds,
                               ![k].slept = @ + seconds,
                               ![k].draw = draw,
                               ![k].elapsed = @ + AttemptSeconds(err) + seconds,
                               ![k].faulty = TRUE]
    /\ faulted' = TRUE
    /\ permits' = permits + 1
    /\ UNCHANGED <<pc, ti, max_page, absoluta_rows, autonomos_rows,
                   equipos_rows, all_rows, parquet, nwrites, site_rows,
                   site_pages, issued, handed, raised, page_counts,
                   overtaken, call>>

\* An attempt of call k raises a transient error and backoff retries: it
\* sleeps inside the semaphore.  elapsed becomes the time since the call
\* began at which the next attempt will start.
Retry(k, err, draw) ==
    /\ pc \in {"fetch", "gather"}
    /\ task[k].st = "request"
    /\ MayFault(k)
    /\ ~GiveUp(task[k].tries, task[k].elapsed)
    /\ task[k].faulty => draw = task[k].draw
    /\ LET seconds == NextWait(Jitter(Expo(task[k].tries), draw), task[k].elapsed)
       IN task' = [task EXCEPT ![k].st = "sleep",
                               ![k].wait = seconds,
                               ![k].slept = @ + seconds,
                               ![k].draw = draw,
                               ![k].elapsed = @ + AttemptSeconds(err) + seconds,
                               ![k].faulty = TRUE]
    /\ faulted' = TRUE
    /\ UNCHANGED <<pc, ti, max_page, permits, absoluta_rows, autonomos_rows,
                   equipos_rows, all_rows, parquet, nwrites, site_rows,
                   site_pages, issued, handed, raised, page_counts,
                   overtaken, call>>

\* asyncio.sleep(seconds) of backoff is over: the next attempt is sent.
Wake(k) ==
    /\ pc \in {"fetch", "gather"}
    /\ task[k].st = "sleep"
    /\ task' = [task EXCEPT ![k].st = "request", ![k].tries = @ + 1]
    /\ UNCHANGED <<pc, ti, max_page, permits, absoluta_rows, autonomos_rows,
                   equipos_rows, all_rows, parquet, nwrites, site_rows,
                   site_pages, faulted, issued, handed, raised, page_counts,
                   overtaken, call>>

\* A give-up after which main() goes on to write what it has collected.
RaiseThenPersist(k, err) ==
    /\ pc \in {"fetch", "gather"}
    /\ task[k].st = "request"
    /\ MayFault(k)
    /\ GiveUp(task[k].tries, task[k].elapsed)
    /\ raised' = Some([type |-> err, tries |-> task[k].tries,
                       seconds |-> task[k].elapsed + AttemptSeconds(err),
                       slept |-> task[k].slept, task |-> k])
    /\ task' = [j \in DOMAIN task |->
                  IF j = k THEN [NoCall EXCEPT !.st = "raised", !.url = task[k].url]
                  ELSE IF task[j].st \in {"waiting", "request", "sleep"}
                  THEN [NoCall EXCEPT !.st = "cancelled"]
                  ELSE task[j]]
    /\ permits' = permits + Cardinality(Holders)
    /\ faulted' = TRUE
    /\ pc' = "write"
    /\ UNCHANGED <<ti, max_page, absoluta_rows, autonomos_rows, equipos_rows,
                   all_rows, parquet, nwrites, site_rows, site_pages, issued,
                   handed, page_counts, overtaken, call>>

\* A give-up in which the call that raises keeps its slot.
RaiseLeaking(k, err) ==
    /\ pc \in {"fetch", "gather"}
    /\ task[k].st = "request"
    /\ MayFault(k)
    /\ GiveUp(task[k].tries, task[k].elapsed)
    /\ raised' = Some([type |-> err, tries |-> task[k].tries,
                       seconds |-> task[k].elapsed + AttemptSeconds(err),
                       slept |-> task[k].slept, task |-> k])
    /\ task' = [j \in DOMAIN task |->
                  IF j = k THEN [NoCall EXCEPT !.st = "raised", !.url = task[k].url]
                  ELSE IF task[j].st \in {"waiting", "request", "sleep"}
                  THEN [NoCall EXCEPT !.st = "cancelled"]
                  ELSE task[j]]
    /\ permits' = permits + Cardinality(Holders) - 1
    /\ faulted' = TRUE
    /\ pc' = "aborted"
    /\ UNCHANGED <<ti, max_page, absoluta_rows, autonomos_rows, equipos_rows,
                   all_rows, parquet, nwrites, site_rows, site_pages, issued,
                   handed, page_counts, overtaken, call>>

\* An attempt of call k raises a transient error and backoff gives up: the
\* error itself is re-raised.  Nothing catches it: it leaves the download_*
\* (from gather, for a page task), main() and asyncio.run, which cancels the
\* tasks still pending; every `async with semaphore` left releases its slot.
Raise(k, err) ==
    /\ pc \in {"fetch", "gather"}
    /\ task[k].st = "request"
    /\ MayFault(k)
    /\ GiveUp(task[k].tries, task[k].elapsed)
    /\ raised' = Some([type |-> err, tries |-> task[k].tries,
                       seconds |-> task[k].elapsed + AttemptSeconds(err),
                       slept |-> task[k].slept, task |-> k])
    /\ task' = [j \in DOMAIN task |->
                  IF j = k THEN [NoCall EXCEPT !.st = "raised", !.url = task[k].url]
                  ELSE IF task[j].st \in {"waiting", "request", "sleep"}
                  THEN [NoCall EXCEPT !.st = "cancelled"]
                  ELSE task[j]]
    /\ permits' = permits + Cardinality(Holders)
    /\ faulted' = TRUE
    /\ pc' = "aborted"
    /\ UNCHANGED <<ti, max_page, absoluta_rows, autonomos_rows, equipos_rows,
                   all_rows, parquet, nwrites, site_rows, site_pages, issued,
                   handed, page_counts, overtaken, call>>

\* A gather that returns as soon as the task of page 2 has returned, leaving
\* the other page tasks running.
GatherDoneFirst ==
    /\ pc = "gather"
    /\ task[2].st = "returned"
    /\ Extend(task[2].rows)
    /\ task' = [task EXCEPT ![2] = NoCall]
    /\ NextTarget
    /\ UNCHANGED <<permits, all_rows, parquet, nwrites, site_rows,
                   site_pages, faulted, issued, handed, raised, page_counts,
                   overtaken, call>>

\* Every page task has returned: gather returns the results in page order
\* and download_absoluta extends all_rows with each of them.
GatherDone ==
    /\ pc = "gather"
    /\ \A k \in PageRange(max_page) : task[k].st = "returned"
    /\ Extend(Concat(task, 2, max_page))
    /\ task' = [k \in DOMAIN task |-> NoCall]
    /\ NextTarget
    /\ UNCHANGED <<permits, all_rows, parquet, nwrites, site_rows,
                   site_pages, faulted, issued, handed, raised, page_counts,
                   overtaken, call>>

\* main() after the session: the three lists are concatenated and the
\* DataFrame is written to data/clasificaciones_2025.parquet.
Write ==
    /\ pc = "write"
    /\ all_rows' = absoluta_rows \o autonomos_rows \o equipos_rows
    /\ parquet' = Some(all_rows')
    /\ nwrites' = nwrites + 1
    /\ pc' = "done"
    /\ UNCHANGED <<ti, max_page, task, permits, absoluta_rows,
                   autonomos_rows, equipos_rows, site_rows, site_pages,
                   faulted, issued, handed, raised, page_counts, overtaken,
                   call>>

Next ==
    \/ MainAcquire
    \/ \E status \in Statuses : MainResponse(status)
    \/ \E k \in 2..MaxPages : PageAcquire(k)
    \/ \E k \in 2..MaxPages, status \in Statuses : PageResponse(k, status)
    \/ \E k \in 1..MaxPages, err \in TransientErrors, draw \in Draws :
          Retry(k, err, draw)
    \/ \E k \in 1..MaxPages : Wake(k)
    \/ \E k \in 1..MaxPages, err \in TransientErrors : Raise(k, err)
    \/ GatherDone
    \/ Write

Spec == Init /\ [][Next]_vars

\* The run under asyncio.run: the event loop runs every callback that is
\* ready, every HTTP attempt ends with an answer or an error (at the latest
\* by the session's total timeout) and every asyncio.sleep of backoff ends,
\* so a run does not stop while a step is possible.
FairSpec == Spec /\ WF_vars(Next)

\* ------------------------------------------------------------ direct calls
\* The parsers called on their own, once, on an input drawn from a bounded
\* set; the run of main() does not move.
run == <<pc, ti, max_page, task, permits, all_rows, absoluta_rows,
         autonomos_rows, equipos_rows, parquet, nwrites, site_rows,
         site_pages, faulted, issued, handed, raised, page_counts,
         overtaken>>

\* The sequences of at most n elements of S.
SeqsUpTo(S, n) == UNION {[1..k -> S] : k \in 0..n}

\* ":".join(parts)
RECURSIVE Join(_)
Join(parts) ==
    IF Len(parts) = 1 THEN parts[1]
    ELSE parts[1] \o <<":">> \o Join(Tail(parts))

\* The parts a time text is made of: empty, digits, a decimal, letters, "-".
PartTokens == {<<>>, <<"0">>, <<"7">>, <<"0", "2">>, <<"5", "9">>,
               <<"1", ".", "5">>, <<"a", "b", "c">>, <<"-">>}

TiempoTexts == {Join(parts) : parts \in SeqsUpTo(PartTokens, MaxParts) \ {<<>>}}

\* tiempo_a_segundos(tiempo) on a text.
TiempoCall(tiempo) ==
    /\ call.fn = "none"
    /\ call' = [fn |-> "tiempo_a_segundos", tiempo |-> tiempo, clock |-> None,
                result |-> tiempo_a_segundos(tiempo)]
    /\ UNCHANGED run

Shapes == {"H:MM:SS", "MM:SS", "S"}

\* The text of h hours, m minutes, s seconds in the shape: f"{h}:{m:02d}:{s:02d}",
\* f"{m}:{s:02d}", f"{s}".
ClockText(shape, h, m, s) ==
    IF shape = "H:MM:SS"
    THEN IntToDigits(h) \o <<":">> \o Pad2(m) \o <<":">> \o Pad2(s)
    ELSE IF shape = "MM:SS" THEN IntToDigits(m) \o <<":">> \o Pad2(s)
    ELSE IntToDigits(s)

\* tiempo_a_segundos(tiempo) on the text of a clock time.
ClockCall(shape, h, m, s) ==
    /\ call.fn = "none"
    /\ shape # "H:MM:SS" => h = 0
    /\ shape = "S" => m = 0
    /\ \E tiempo \in {ClockText(shape, h, m, s)} :
          call' = [fn |-> "tiempo_a_segundos", tiempo |-> tiempo,
                   clock |-> Some([shape |-> shape, h |-> h, m |-> m, s |-> s]),
                   result |-> tiempo_a_segundos(tiempo)]
    /\ UNCHANGED run

\* The texts of a rank cell and of a time cell.
RankTokens == {<<"3">>, <<"0">>, <<"X">>, <<>>}

CellTiempos == {SiteTiempo, <<"-">>,
                <<"1", ":", "0", "2", ":", "0", "3", ":", "0", "4">>}

\* The <tr> rows of an individual table: four cells, or none, three, five.
IndividualTrs ==
    {<<r, <<"n">>, <<"e">>, t>> : r \in RankTokens, t \in CellTiempos}
    \cup {<<>>, <<<<"3">>, <<"n">>, <<"e">>>>,
          <<<<"3">>, <<"n">>, <<"e">>, SiteTiempo, <<"x">>>>}

IndividualBodies ==
    {[table |-> t, equipos |-> <<>>, links |-> <<>>] :
        t \in {None} \cup {Some(trs) : trs \in SeqsUpTo(IndividualTrs, MaxTrs)}}

\* parse_individual(html, "absoluta", "5K", "M") on a body.
ParseIndividualCall(html) ==
    /\ call.fn = "none"
    /\ call' = [fn |-> "parse_individual", html |-> html,
                result |-> parse_individual(html, "absoluta", "5K", "M")]
    /\ UNCHANGED run

\* The text of a team cell: the name alone, or the name and the marker with
\* 3958521, 999 or 0 milliseconds, or with no digits.
Milliseconds == {3958521, 999, 0}

TeamText(ms) == <<"T", "|", "Tiempo Acumulado:", " ">> \o IntToDigits(ms)

TeamTexts == {<<"T">>, <<"T", "|", "Tiempo Acumulado:", " ", "x">>}
             \cup {TeamText(ms) : ms \in Milliseconds}

FirstTrs ==
    {<<r, tt, <<"n">>, SiteTiempo>> : r \in RankTokens \ {<<>>}, tt \in TeamTexts}
    \cup {<<<<"3">>, <<"T">>, <<"n">>>>}

MemberTrs == {<<<<"m">>, SiteTiempo>>, <<<<"m">>, <<"-">>>>, <<<<"m">>>>}

Blocks ==
    {[data_equipo |-> d, trs |-> <<f>> \o ms] :
        d \in {None, Some(<<"t", "1">>)}, f \in FirstTrs,
        ms \in SeqsUpTo(MemberTrs, MaxMembers)}
    \cup {[data_equipo |-> None, trs |-> <<>>]}

PlainBlock == [data_equipo |-> Some(<<"t", "2">>),
               trs |-> <<<<<<"4">>, TeamText(3958521), <<"n">>, SiteTiempo>>,
                         <<<<"m">>, SiteTiempo>>>>]

EquiposBodies ==
    {[table |-> None, equipos |-> bs, links |-> <<>>] :
        bs \in {<<>>} \cup {<<b>> : b \in Blocks}
                     \cup {<<b, PlainBlock>> : b \in Blocks}}

TeamSizes == {2, 3, 4}

\* parse_equipos(html, "equipos", "5K", "X", num_corredores) on a body.
ParseEquiposCall(html, num_corredores) ==
    /\ call.fn = "none"
    /\ call' = [fn |-> "parse_equipos", html |-> html,
                num_corredores |-> num_corredores,
                result |-> parse_equipos(html, "equipos", "5K", "X",
                                         num_corredores)]
    /\ UNCHANGED run

\* What a link points to: page n >= 0, a target without page parameter
\* (-1), or a page parameter without digits (-2).
LinkPages == {-2, -1, 0, 2, 7, 12}

LinkOf(n) ==
    IF n >= 0 THEN <<"?", "page=">> \o IntToDigits(n)
    ELSE IF n = -1 THEN <<"i", "n", "d", "e", "x">>
    ELSE <<"?", "page=", "x">>

\* get_max_page(html) on a body with the links to `pages`.
GetMaxPageCall(pages) ==
    /\ call.fn = "none"
    /\ LET html == [table |-> None, equipos |-> <<>>,
                    links |-> [i \in 1..Len(pages) |-> LinkOf(pages[i])]]
       IN call' = [fn |-> "get_max_page", pages |-> pages, html |-> html,
                   result |-> get_max_page(html)]
    /\ UNCHANGED run

\* The accumulated times sent through the round trip: around every whole
\* second up to MaxSeconds, and around 24 and 100 hours.
RoundTripMilliseconds ==
    {1000 * sec + f : sec \in 0..MaxSeconds, f \in {0, 1, 999}}
    \cup {86399999, 86400000, 359999999, 360000000}

\* The tiempo_acumulado parse_equipos formats from a team cell showing ms
\* milliseconds, then tiempo_a_segundos of that text.
RoundTripCall(ms) ==
    /\ call.fn = "none"
    /\ \E tiempo_acumulado \in {TiempoAcumulado(TeamText(ms))} :
          call' = [fn |-> "round_trip", ms |-> ms,
                   tiempo_acumulado |-> tiempo_acumulado,
                   result |-> IF tiempo_acumulado = None THEN None
                              ELSE tiempo_a_segundos(Val(tiempo_acumulado))]
    /\ UNCHANGED run

ParserInit == Init /\ site_rows = 1 /\ site_pages = 1

\* The inputs left to choose from: each run makes one direct call.
Inputs(S) == IF call.fn = "none" THEN S ELSE {}

ParserNext ==
    \/ \E tiempo \in Inputs(TiempoTexts) : TiempoCall(tiempo)
    \/ \E shape \in Inputs(Shapes), h \in 0..MaxHours, m \in 0..59, s \in 0..59 :
          ClockCall(shape, h, m, s)
    \/ \E html \in Inputs(IndividualBodies) : ParseIndividualCall(html)
    \/ \E html \in Inputs(EquiposBodies), num_corredores \in TeamSizes :
          ParseEquiposCall(html, num_corredores)
    \/ \E pages \in Inputs(SeqsUpTo(LinkPages, MaxLinks)) : GetMaxPageCall(pages)
    \/ \E ms \in Inputs(RoundTripMilliseconds) : RoundTripCall(ms)

ParserSpec == ParserInit /\ [][ParserNext]_vars

\* ------------------------------------------------------------ properties
\* The fetch calls issued for target i, in call order.
IssuedFor(i) == SelectSeq(issued, LAMBDA c : c.target = i)

FirstCall(i) == [target |-> i, url |-> Targets[i].url]

\* The first page once, then the pages 2..n once each, in page order.
ExpectedCalls(i, n) == <<FirstCall(i)>> \o Calls(i, 2..n)

IsPrefix(s, t) == Len(s) <= Len(t) /\ SubSeq(t, 1, Len(s)) = s

\* The three row lists in the order main() concatenates them.
Merged == absoluta_rows \o autonomos_rows \o equipos_rows

\* The rows the site holds for the pages lo..hi of target i, in page order.
RECURSIVE PagesRows(_, _, _)
PagesRows(i, lo, hi) ==
    IF lo > hi THEN <<>>
    ELSE parse_individual(SiteBody(PageUrl(Targets[i].url, lo), 200,
                                   site_pages, site_rows),
                          Targets[i].categoria, Targets[i].distancia,
                          Targets[i].sexo)
         \o PagesRows(i, lo + 1, hi)

\* The rows the site holds for target i: its first page, then its other pages.
TargetRows(i) ==
    LET first == SiteBody(Targets[i].url, 200, site_pages, site_rows)
    IN Parse(Targets[i], first)
       \o (IF IsAbsoluta(i) THEN PagesRows(i, 2, get_max_page(first)) ELSE <<>>)

RECURSIVE RowsOfTargets(_, _)
RowsOfTargets(lo, hi) ==
    IF lo > hi THEN <<>> ELSE TargetRows(lo) \o RowsOfTargets(lo + 1, hi)

\* The index in Targets of the target a row was parsed for.
TargetOf(row) ==
    CHOOSE i \in 1..Len(Targets) :
        /\ Targets[i].categoria = row.categoria
        /\ Targets[i].distancia = row.distancia
        /\ Targets[i].sexo = row.sexo

\* Row a does not come after row b in (target, rank) order.
InOrder(a, b) ==
    \/ TargetOf(a) < TargetOf(b)
    \/ TargetOf(a) = TargetOf(b) /\ Val(a.puesto) <= Val(b.puesto)

\* C1: in every state of a run at most MAX_CONCURRENT (5) requests are in
\* flight, however many page tasks are pending, and every call that is
\* requesting or backing off holds one slot of the run's one semaphore: the
\* slots held and the slots free always add up to MAX_CONCURRENT.
C1_GateBound ==
    /\ Cardinality(InFlight) <= MAX_CONCURRENT
    /\ permits >= 0
    /\ Cardinality(Holders) + permits = MAX_CONCURRENT

\* Five requests in flight while a further page task waits for a slot.
C1_Witness ==
    /\ Cardinality(InFlight) = MAX_CONCURRENT
    /\ permits = 0
    /\ \E k \in DOMAIN task : task[k].st = "waiting"

\* C2: when a fetch has failed after exhausting its retries, the run goes on:
\* it is not aborted and no sibling page fetch is cancelled.
C2_Isolation ==
    raised # None =>
        /\ pc # "aborted"
        /\ \A k \in DOMAIN task : task[k].st # "cancelled"

C4_PermanentNotParsed == \A status \in handed : status \notin 400..499

\* C5: the body of a 5xx answer is never returned as a result and parsed.
C5_ServerErrorRetried == \A status \in handed : status \notin 500..599

\* C6: a run that has ended after a fetch failed by exhaustion has written
\* the dataset.
C6_PersistDespiteExhaustion ==
    (raised # None /\ pc \in {"done", "aborted"}) => parquet # None

\* C7: a fetch of a page >= 2 is issued only for an absoluta target, after
\* the first-page fetch of that target was issued and has completed, and for
\* a page within the page count computed from the first page's body.
C7_PagesAfterFirst ==
    /\ \A n \in 1..Len(issued) :
          issued[n].url.page # 0 =>
              LET i == issued[n].target
              IN /\ IsAbsoluta(i)
                 /\ page_counts[i] \in {1, site_pages}
                 /\ issued[n].url.page \in 2..page_counts[i]
                 /\ \E m \in 1..(n - 1) : issued[m] = FirstCall(i)
    /\ \A k \in 2..MaxPages :
          task[k].st \in {"waiting", "request", "sleep", "returned"} =>
              /\ task[1].st = "none"
              /\ k <= max_page
              /\ max_page = page_counts[ti]

\* The request of a page >= 2 is in flight on a site of MaxPages pages.
C7_Witness ==
    /\ page_counts[ti] = MaxPages
    /\ \E k \in 2..MaxPages :
          /\ task[k].st = "request"
          /\ issued[Len(issued)].url.page >= 2

C9_MergeOrder ==
    /\ \A n \in 1..(Len(Merged) - 1) : InOrder(Merged[n], Merged[n + 1])
    /\ (pc \in {"acquire", "write", "done"} /\ handed \subseteq {200}) =>
          Merged = RowsOfTargets(1, ti - 1)
    /\ pc = "done" => (all_rows = Merged /\ parquet = Some(Merged))

\* An absoluta target has just been merged after a page task returned before
\* the task of a lower page.
C9_Witness ==
    /\ pc = "acquire"
    /\ ti > 1
    /\ overtaken
    /\ handed \subseteq {200}
    /\ Len(Merged) >= MaxPages

\* C10: the dataset is written exactly once in a run that has ended, and
\* never while a fetch is in flight or pending.
C10_PersistOnce ==
    /\ nwrites <= 1
    /\ nwrites = 1 => \A k \in DOMAIN task : task[k].st = "none"
    /\ pc \in {"done", "aborted"} => nwrites = 1

\* The number of records the parsers yield for the bodies of the first n
\* fetch calls of the run, each answered with a 200.
RECURSIVE ParsedCount(_)
ParsedCount(n) ==
    IF n = 0 THEN 0
    ELSE ParsedCount(n - 1)
         + Len(Parse(Targets[issued[n].target],
                     SiteBody(issued[n].url, 200, site_pages, site_rows)))

\* C11: when every fetch succeeded, the number of merged records equals the
\* sum over every fetched body of the number of records its parser yields,
\* between two targets and at the write, and the file written holds that
\* many records.
C11_RecordCount ==
    /\ (pc \in {"acquire", "write", "done"} /\ handed \subseteq {200}) =>
          Len(Merged) = ParsedCount(Len(issued))
    /\ (pc = "done" /\ handed \subseteq {200}) =>
          Len(Val(parquet)) = ParsedCount(Len(issued))

\* A whole run without fault on a site of MaxPages pages: site_rows records
\* for each page of the 4 absoluta targets and for each of the 4 autonomos
\* targets, and site_rows teams of 2, 3 and 4 members for 6 targets each.
C11_Witness ==
    /\ pc = "done"
    /\ handed = {200}
    /\ site_pages = MaxPages
    /\ Len(Val(parquet)) = site_rows * (4 * MaxPages + 4 + 6 * (2 + 3 + 4))

\* The records returned by the last direct call of a row parser.
Records ==
    IF call.fn \in {"parse_individual", "parse_equipos"} THEN call.result
    ELSE <<>>

\* C12: every record a parser returns has puesto absent or strictly
\* positive.
C12_PuestoPositive ==
    \A n \in 1..Len(Records) :
        Records[n].puesto = None \/ Val(Records[n].puesto) > 0

\* A numeric token: digits with at most one decimal point.
NumericToken(t) ==
    /\ \E i \in 1..Len(t) : IsDigitChar(t[i])
    /\ \A i \in 1..Len(t) : IsDigitChar(t[i]) \/ t[i] = "."
    /\ Cardinality({i \in 1..Len(t) : t[i] = "."}) <= 1

\* The accepted duration shapes: one, two or three colon-separated parts,
\* the last a numeric token and the others digits.
AcceptedShape(t) ==
    LET parts == Split(t)
    IN /\ Len(parts) \in 1..3
       /\ \A i \in 1..(Len(parts) - 1) : IsDigit(parts[i])
       /\ NumericToken(parts[Len(parts)])

\* C13: on every record a parser returns, tiempo_segundos is absent if and
\* only if tiempo is "-", empty, or not of an accepted duration shape.
C13_AbsentIff ==
    \A n \in 1..Len(Records) :
        Records[n].tiempo_segundos = None
            <=> \/ Records[n].tiempo = <<"-">>
                \/ Records[n].tiempo = <<>>
                \/ ~AcceptedShape(Records[n].tiempo)

\* C14: every record of parse_individual has num_corredores = 1 and no
\* nombre_equipo and no tiempo_acumulado; every record of parse_equipos,
\* first-row and member-row records alike, has the num_corredores the parser
\* was called with, however many rows its block has.
C14_NumCorredores ==
    /\ call.fn = "parse_individual" =>
          \A n \in 1..Len(call.result) :
              /\ call.result[n].num_corredores = 1
              /\ call.result[n].nombre_equipo = None
              /\ call.result[n].tiempo_acumulado = None
    /\ call.fn = "parse_equipos" =>
          \A n \in 1..Len(call.result) :
              call.result[n].num_corredores = call.num_corredores

\* A block of a first row and one member row parsed for teams of 4: two
\* records, both with num_corredores = 4.
C14_Witness ==
    /\ call.fn = "parse_equipos"
    /\ call.num_corredores = 4
    /\ Len(call.html.equipos) = 1
    /\ Len(call.html.equipos[1].trs) = 2
    /\ Len(call.result) = 2
    /\ call.result[2].num_corredores = 4

\* C15: tiempo_a_segundos returns absent for every text that is not of an
\* accepted duration shape.
C15_OtherShapesAbsent ==
    (call.fn = "tiempo_a_segundos" /\ ~AcceptedShape(call.tiempo)) =>
        call.result = None

\* C16: tiempo_a_segundos maps the text of h hours, m minutes and s seconds
\* to h*3600 + m*60 + s seconds, the text of m minutes and s seconds to
\* m*60 + s, the text of s seconds to s, and "-" and the empty text to
\* absent.  (Seconds are kept in thousandths.)
C16_ClockSeconds ==
    /\ (call.fn = "tiempo_a_segundos" /\ call.clock # None) =>
          call.result = Some(1000 * (Val(call.clock).h * 3600
                                     + Val(call.clock).m * 60
                                     + Val(call.clock).s))
    /\ (call.fn = "tiempo_a_segundos" /\ call.tiempo \in {<<>>, <<"-">>}) =>
          call.result = None

\* "1:02:03" gives 3723 seconds.
C16_Witness ==
    /\ call.fn = "tiempo_a_segundos"
    /\ call.tiempo = <<"1", ":", "0", "2", ":", "0", "3">>
    /\ call.clock = Some([shape |-> "H:MM:SS", h |-> 1, m |-> 2, s |-> 3])
    /\ call.result = Some(3723000)

\* The number of records parse_equipos emits for a block: none without a
\* first row of 4 cells, else one and one more for each later row of at
\* least 2 cells.
Emitted(b) ==
    IF Len(b.trs) = 0 THEN 0
    ELSE IF Len(b.trs[1]) < 4 THEN 0
    ELSE 1 + Cardinality({j \in 2..Len(b.trs) : Len(b.trs[j]) >= 2})

\* The number of records emitted for the blocks before block j.
RECURSIVE Offset(_, _)
Offset(bs, j) == IF j = 1 THEN 0 ELSE Offset(bs, j - 1) + Emitted(bs[j - 1])

\* C17: the records parse_equipos emits for one block, one for the first
\* row and one for each member row, all carry the same puesto,
\* tiempo_acumulado, nombre_equipo and num_corredores: the rank of the
\* block's first row, the upper-cased name of the block and the team size
\* the parser was called with.
C17_BlockRecords ==
    call.fn = "parse_equipos" =>
        LET bs == call.html.equipos
        IN /\ Len(call.result) = Offset(bs, Len(bs) + 1)
           /\ \A j \in 1..Len(bs) :
                 \A n \in (Offset(bs, j) + 1)..(Offset(bs, j) + Emitted(bs[j])) :
                     LET r == call.result[n]
                         first == call.result[Offset(bs, j) + 1]
                         rank == bs[j].trs[1][1]
                     IN /\ r.puesto = first.puesto
                        /\ r.tiempo_acumulado = first.tiempo_acumulado
                        /\ r.nombre_equipo = first.nombre_equipo
                        /\ r.num_corredores = first.num_corredores
                        /\ r.num_corredores = call.num_corredores
                        /\ r.puesto = None <=> ~IsDigit(rank)
                        /\ IsDigit(rank) => r.puesto = Some(DigitsToInt(rank))
                        /\ r.nombre_equipo =
                              Some(IF bs[j].data_equipo = None THEN <<>>
                                   ELSE ToUpper(Val(bs[j].data_equipo)))

\* A block of a first row and 2 member rows gives exactly 3 records, ranked.
C17_Witness ==
    /\ call.fn = "parse_equipos"
    /\ Len(call.html.equipos) = 1
    /\ Len(call.html.equipos[1].trs) = 3
    /\ Len(call.result) = 3
    /\ call.result[3].puesto = Some(3)
    /\ call.result[3].tiempo_acumulado # None

\* Whole seconds as zero-padded HH:MM:SS.
HHMMSS(seconds) ==
    Pad2(seconds \div 3600) \o <<":">> \o Pad2((seconds % 3600) \div 60)
        \o <<":">> \o Pad2(seconds % 60)

\* C18: on every record of a block whose team cell holds the marker with ms
\* milliseconds, 0 included, tiempo_acumulado is the HH:MM:SS of ms div
\* 1000; on every record of a block without the marker it is absent.
C18_TiempoAcumulado ==
    call.fn = "parse_equipos" =>
        LET bs == call.html.equipos
        IN \A j \in 1..Len(bs) :
              \A n \in (Offset(bs, j) + 1)..(Offset(bs, j) + Emitted(bs[j])) :
                  LET team_text == bs[j].trs[1][2]
                      r == call.result[n]
                  IN /\ \A ms \in Milliseconds :
                           team_text = TeamText(ms) =>
                               r.tiempo_acumulado = Some(HHMMSS(ms \div 1000))
                     /\ ~Contains(team_text, "Tiempo Acumulado:") =>
                           r.tiempo_acumulado = None

\* The rows of the table after the first that have at least 4 cells.
DataTrs(html) ==
    IF html.table = None THEN <<>>
    ELSE IF Val(html.table) = <<>> THEN <<>>
    ELSE SelectSeq(Tail(Val(html.table)), LAMBDA tr : Len(tr) >= 4)

C20_MaxPage ==
    call.fn = "get_max_page" =>
        /\ call.result >= 1
        /\ \A i \in 1..Len(call.pages) : call.pages[i] <= call.result
        /\ \/ call.result = 1
           \/ \E i \in 1..Len(call.pages) : call.pages[i] = call.result
        /\ (\A i \in 1..Len(call.pages) : call.pages[i] < 0) => call.result = 1

\* Links to page=2 and page=7 give 7.
C20_Witness ==
    /\ call.fn = "get_max_page"
    /\ call.pages = <<2, 7>>
    /\ call.result = 7

\* C21: a run that has ended has fetched the first page of each of the 26
\* targets exactly once.
C21_EveryTargetOnce ==
    pc \in {"done", "aborted"} =>
        \A i \in 1..Len(Targets) :
            Cardinality({n \in 1..Len(issued) : issued[n] = FirstCall(i)}) = 1

\* The member rows of a block that give a record: the rows after the first
\* with at least 2 cells, when the block has a first row of 4 cells.
MemberData(b) ==
    IF Emitted(b) = 0 THEN <<>>
    ELSE SelectSeq(Tail(b.trs), LAMBDA tr : Len(tr) >= 2)

\* The number of records of the blocks 1..j: a block without a first row of
\* 4 cells gives none, another gives one and one per member row kept.
RECURSIVE RecordsUpTo(_, _)
RecordsUpTo(bs, j) ==
    IF j = 0 THEN 0
    ELSE RecordsUpTo(bs, j - 1)
         + (IF Emitted(bs[j]) = 0 THEN 0 ELSE 1 + Len(MemberData(bs[j])))

C23_AsStated ==
    [][\A k \in DOMAIN task :
          (task[k].st = "request" /\ task'[k].st = "sleep" /\ task[k].tries >= 2)
              => task'[k].wait > task[k].wait]_vars

\* C23: the delay waited after attempt k of a fetch call is at least 0 and
\* at most 2^(k-1) seconds, and the delays of one call never add up to more
\* than 60 seconds; only the upper limit doubles from one attempt to the
\* next.
C23_JitteredBackoff ==
    \A k \in DOMAIN task :
        task[k].st = "sleep" =>
            /\ task[k].tries \in 1..(MaxTries - 1)
            /\ task[k].wait >= 0
            /\ task[k].wait <= 2 ^ (task[k].tries - 1)
            /\ task[k].wait <= task[k].slept
            /\ task[k].slept <= MaxTime

\* A call backs off after its second attempt with a delay of 0 seconds,
\* having waited 0 seconds after its first: the delay has not grown.
C23_Witness ==
    \E k \in DOMAIN task :
        /\ task[k].st = "sleep"
        /\ task[k].tries = 2
        /\ task[k].wait = 0
        /\ task[k].slept = 0

\* C24: a fetch call keeps its slot of the gate from before its first
\* attempt until it has returned a body or failed: the step in which a call
\* starts to back off and the step in which it sends its next attempt leave
\* the free permits as they are, a call that enters the gate is at its
\* first attempt, and a call that backs off leaves the gate only by being
\* cancelled.
C24_SlotKept ==
    [][\A k \in DOMAIN task :
          /\ (task[k].st = "request" /\ task'[k].st = "sleep")
                => permits' = permits
          /\ (task[k].st = "sleep" /\ task'[k].st = "request")
                => (permits' = permits /\ task'[k].tries = task[k].tries + 1)
          /\ (task[k].st \notin {"request", "sleep"} /\ task'[k].st = "request")
                => task'[k].tries = 1
          /\ task[k].st = "sleep"
                => task'[k].st \in {"sleep", "request", "cancelled"}]_vars

\* A call backs off after its second attempt while no permit is free and
\* another task waits at the gate: the call that sleeps counts against the
\* limit.
C24_Witness ==
    /\ permits = 0
    /\ \E k \in DOMAIN task : task[k].st = "sleep" /\ task[k].tries = 2
    /\ \E j \in DOMAIN task : task[j].st = "waiting"
    /\ Cardinality({k \in DOMAIN task : task[k].st \in {"request", "sleep"}})
          = MAX_CONCURRENT

\* C25: in every state the free permits are between 0 and 5 and, with the
\* slots held by the calls inside the gate, add up to 5; between two
\* targets, and once the run has finished or aborted, no slot is held and
\* all 5 permits are free.
C25_PermitsBalanced ==
    /\ permits \in 0..MAX_CONCURRENT
    /\ permits + Cardinality({k \in DOMAIN task : Holding(task[k])})
          = MAX_CONCURRENT
    /\ pc \in {"acquire", "write", "done", "aborted"} =>
          /\ permits = MAX_CONCURRENT
          /\ \A k \in DOMAIN task : ~Holding(task[k])

\* The run has aborted on a page fetch that exhausted its retries while
\* other page tasks held slots or waited: they are cancelled and all 5
\* permits are free.
C25_Witness ==
    /\ pc = "aborted"
    /\ raised # None
    /\ permits = MAX_CONCURRENT
    /\ \E k \in DOMAIN task : task[k].st = "raised" /\ k >= 2
    /\ \E j \in DOMAIN task : task[j].st = "cancelled"

\* C26: the targets are processed one after the other.  Every fetch call
\* that exists belongs to the current target; when the first fetch of a
\* target is about to be issued no call of the target before is left; the
\* fetch calls were issued in target order; more than one call is inside
\* the gate only among the page tasks (pages 2..N) of one absoluta target,
\* and during the autonomos and team phases at most one call is.
C26_OneTargetAtATime ==
    /\ \A k \in DOMAIN task :
          task[k].url # None => PageUrl(Val(task[k].url), 0) = Targets[ti].url
    /\ pc = "acquire" => \A k \in DOMAIN task : task[k].st = "none"
    /\ \A n \in 1..Len(issued) :
          /\ issued[n].target <= ti
          /\ n > 1 => issued[n - 1].target <= issued[n].target
    /\ Cardinality(Holders) > 1 =>
          /\ IsAbsoluta(ti)
          /\ pc = "gather"
          /\ \A k \in Holders : k >= 2
    /\ Cardinality(InFlight) > 1 => IsAbsoluta(ti)
    /\ ~IsAbsoluta(ti) => Cardinality(Holders) <= 1

\* Several page fetches of the second absoluta target are in flight
\* together, after every fetch of the first target has completed.
C26_Witness ==
    /\ ti = 2
    /\ pc = "gather"
    /\ Cardinality(InFlight) >= 2
    /\ \A k \in InFlight : PageUrl(Val(task[k].url), 0) = Targets[2].url
    /\ \E n \in 1..Len(issued) : issued[n].target = 1

\* C27: once a fetch has failed after exhausting its retries the run is
\* aborted and takes no further step: nothing is concatenated, the parquet
\* file is not written, no call is left requesting, backing off or waiting,
\* and no target after the one that failed has been or will be fetched.
C27_AbortWithoutPersist ==
    raised # None =>
        /\ pc = "aborted"
        /\ all_rows = <<>>
        /\ parquet = None
        /\ nwrites = 0
        /\ \A k \in DOMAIN task :
              task[k].st \notin {"waiting", "request", "sleep"}
        /\ \A n \in 1..Len(issued) : issued[n].target <= ti
        /\ ti \in 1..Len(Targets)
        /\ ~ENABLED Next

\* The run aborts on a later target with rows of earlier targets collected:
\* they are never written.
C27_Witness ==
    /\ raised # None
    /\ pc = "aborted"
    /\ ti > 1
    /\ Len(absoluta_rows) > 0
    /\ parquet = None

\* What one call still has before it: a call at the gate has its first
\* attempt before it, a call at attempt t has the MaxTries - t attempts and
\* sleeps that may follow.
CallRank(c) ==
    IF c.st = "waiting" THEN 2 * MaxTries + 1
    ELSE IF c.st = "request" THEN 2 * (MaxTries - c.tries) + 2
    ELSE IF c.st = "sleep" THEN 2 * (MaxTries - c.tries) + 1
    ELSE 0

RECURSIVE CallsRank(_)
CallsRank(k) == IF k = 0 THEN 0 ELSE CallRank(task[k]) + CallsRank(k - 1)

\* What the run still has before it: the targets left, the position in the
\* download_* of the current target, and the calls of that target.
Rank ==
    IF pc \in {"done", "aborted"} THEN 0
    ELSE IF pc = "write" THEN 1
    ELSE (Len(Targets) + 1 - ti) * 1000
         + (IF pc = "acquire" THEN 200 ELSE IF pc = "fetch" THEN 100 ELSE 0)
         + CallsRank(MaxPages)

C29_TargetLabels ==
    LET Labelled(rows, lo, hi) ==
            \A n \in 1..Len(rows) :
                \E i \in lo..hi :
                    /\ i <= ti
                    /\ rows[n].categoria = Targets[i].categoria
                    /\ rows[n].distancia = Targets[i].distancia
                    /\ rows[n].sexo = Targets[i].sexo
                    /\ rows[n].num_corredores = Targets[i].num_corredores
    IN /\ Labelled(absoluta_rows, 1, LastAbsoluta)
       /\ Labelled(autonomos_rows, LastAbsoluta + 1, LastAutonomos)
       /\ Labelled(equipos_rows, LastAutonomos + 1, LastEquipos)
       /\ all_rows \in {<<>>, Merged}
       /\ \A n \in 1..Len(Merged) :
             /\ Merged[n].distancia \in {"5K", "10K"}
             /\ Merged[n].categoria \in {"absoluta", "autonomos"} =>
                   (Merged[n].num_corredores = 1 /\ Merged[n].sexo \in {"M", "F"})
             /\ Merged[n].categoria \notin {"absoluta", "autonomos"} =>
                   \E N \in 2..4 :
                       /\ Merged[n].categoria = "equipos_" \o Digits[N + 1]
                       /\ Merged[n].num_corredores = N
                       /\ Merged[n].sexo \in {"M", "F", "X"}

\* The written dataset holds a record of an absoluta target and a record of
\* the mixed teams of 4 over 10K.
C29_Witness ==
    /\ pc = "done"
    /\ \E n \in 1..Len(all_rows) :
          /\ all_rows[n].categoria = "absoluta"
          /\ all_rows[n].num_corredores = 1
    /\ \E n \in 1..Len(all_rows) :
          /\ all_rows[n].categoria = "equipos_4"
          /\ all_rows[n].distancia = "10K"
          /\ all_rows[n].sexo = "X"
          /\ all_rows[n].num_corredores = 4

\* C30: for every accumulated time of ms > 0 milliseconds, the
\* tiempo_acumulado the team parser formats has three fields of digits, an
\* hour field of at least two digits and minute and second fields of two
\* digits with values in 0..59, and tiempo_a_segundos of it is exactly
\* ms div 1000 seconds.
C30_RoundTrip ==
    (call.fn = "round_trip" /\ call.ms > 0) =>
        /\ call.tiempo_acumulado # None
        /\ LET parts == Split(Val(call.tiempo_acumulado))
           IN /\ Len(parts) = 3
              /\ \A i \in 1..3 : IsDigit(parts[i])
              /\ Len(parts[1]) >= 2
              /\ Len(parts[2]) = 2
              /\ Len(parts[3]) = 2
              /\ DigitsToInt(parts[1]) = call.ms \div 3600000
              /\ DigitsToInt(parts[2]) \in 0..59
              /\ DigitsToInt(parts[3]) \in 0..59
        /\ call.result = Some(1000 * (call.ms \div 1000))

\* 3,599,999 ms are formatted as 00:59:59 and read back as 3599 seconds.
C30_Witness ==
    /\ call.fn = "round_trip"
    /\ call.ms = 3599999
    /\ call.tiempo_acumulado = Some(<<"0", "0", ":", "5", "9", ":", "5", "9">>)
    /\ call.result = Some(3599000)

=============================================================================
